---- MODULE Spec2Model ----
(***************************************************************************)
(* Model of multiqc/modules/base_module.py (BaseMultiqcModule):            *)
(*   - clean_s_name          sample-name resolution                        *)
(*   - find_log_files        the file discovery generator                  *)
(*   - general_stats_addcols the General Statistics aggregation            *)
(* Python strings are sequences of one-character strings.                  *)
(***************************************************************************)
EXTENDS Integers, Sequences, FiniteSets, TLC

VARIABLES
    \* configuration (multiqc.utils.config)
    fn_clean_exts,      \* ordered list of cleaning tokens
    prepend_dirs,       \* prepend the directory to the sample name
    \* clean_s_name called twice on one input
    nm_pc,              \* "init" | "once" | "twice"
    nm_s_name,          \* the filename given to the first call
    nm_root,            \* the root given to both calls
    nm_first,           \* result of the first call
    nm_second,          \* result of the second call
    \* configuration read by find_log_files
    fn_ignore_files,    \* config.fn_ignore_files (literal patterns)
    \* the file system under config.analysis_dir, in walk order
    files,
    \* arguments of find_log_files
    patterns, filecontents, filehandles,
    \* the find_log_files generator
    pc,                 \* position of the generator
    idx,                \* index in files of the file of the current iteration
    fn_match, contents_match, s_name, fn_matched,   \* its local variables
    hstate,             \* per file: handle opened by io.open: none/open/closed
    closer,             \* per file: who closed the handle: none/engine/caller
    fpos,               \* read position (in lines) of the current handle
    opens,              \* per file: number of io.open calls
    reads,              \* per file: number of passes over the whole contents
    yielded,            \* the values yielded so far
    log,                \* the messages logged so far, <<message, file index>>
    \* General Statistics (multiqc.utils.report)
    general_stats,      \* report.general_stats: namespace -> [data, headers]
    gs_writer,          \* per namespace: self.name of the module that wrote it
    called,             \* per namespace: data and headers of the last call
    last,               \* the last call: arguments and outcome
    ncalls,             \* number of calls made
    \* data sources (multiqc.utils.report)
    data_sources,       \* report.data_sources: <<module, section, s_name>> -> source
    ds_last,            \* the last add_data_source call: arguments and outcome
    ds_ncalls,          \* number of add_data_source calls made
    \* plot_bargraph
    bar_pc,             \* "init" | "done"
    bar_data,           \* the data argument: a list of datasets
    bar_cats,           \* the cats argument
    bar_result,         \* what the call returned or raised
    \* matplotlib_bargraph
    mpl_pc,             \* "init" | "loop" | "end" | "done" | "raised"
    mpl_plotdata,       \* the plotdata argument
    mpl_plotsamples,    \* the plotsamples argument
    mpl_pconfig,        \* the pconfig argument
    mpl_result          \* the locals of the call, and what it returned or raised

cfgVars  == <<fn_clean_exts, prepend_dirs>>
nameVars == <<nm_pc, nm_s_name, nm_root, nm_first, nm_second>>
argVars  == <<fn_ignore_files, files, patterns, filecontents, filehandles>>
genVars  == <<pc, idx, fn_match, contents_match, s_name, fn_matched,
              hstate, closer, fpos, opens, reads, yielded, log>>
discVars == <<argVars, genVars>>
statVars == <<general_stats, gs_writer, called, last, ncalls>>
srcVars  == <<data_sources, ds_last, ds_ncalls>>
barVars  == <<bar_pc, bar_data, bar_cats, bar_result>>
mplVars  == <<mpl_pc, mpl_plotdata, mpl_plotsamples, mpl_pconfig, mpl_result>>
plotVars == <<srcVars, barVars, mplVars>>
vars     == <<cfgVars, nameVars, discVars, statVars, plotVars>>

----------------------------------------------------------------------------
\* Bounds of the model
MaxNameLen == 3
MaxExts    == 2

\* Python's None where a string is expected
None == <<"<None>">>

----------------------------------------------------------------------------
\* Strings

SeqsUpTo(S, n) == UNION { [1..m -> S] : m \in 0..n }

\* t occurs in s at position i
OccursAt(s, t, i) ==
    /\ i + Len(t) - 1 <= Len(s)
    /\ \A j \in 1..Len(t) : s[i + j - 1] = t[j]

\* Python: t in s
Contains(t, s) == \E i \in 1..(Len(s) + 1) : OccursAt(s, t, i)

\* index of the occurrence of t in s that str.split(t, 1) splits at
SplitIndex_last(s, t) ==
    CHOOSE i \in 1..(Len(s) + 1) :
        /\ OccursAt(s, t, i)
        /\ \A j \in 1..(Len(s) + 1) : OccursAt(s, t, j) => j <= i

SplitIndex(s, t) ==
    CHOOSE i \in 1..(Len(s) + 1) :
        /\ OccursAt(s, t, i)
        /\ \A j \in 1..(i - 1) : ~OccursAt(s, t, j)

\* Python: s.split(ext, 1)[0]   (ext is not empty)
SplitFirst(s, ext) ==
    IF Contains(ext, s) THEN SubSeq(s, 1, SplitIndex(s, ext) - 1) ELSE s

\* Python: os.sep
os_sep == "/"

\* Python: root.replace(os.sep, ' | ')
RECURSIVE ReplaceSep(_)
ReplaceSep(s) ==
    IF s = <<>> THEN <<>>
    ELSE (IF Head(s) = os_sep THEN <<" ", "|", " ">> ELSE <<Head(s)>>)
         \o ReplaceSep(Tail(s))

\* Python: s.lstrip(chars)
RECURSIVE LStrip(_, _)
LStrip(s, chars) ==
    IF s # <<>> /\ Head(s) \in chars THEN LStrip(Tail(s), chars) ELSE s

\* the for loop of clean_s_name over config.fn_clean_exts
RECURSIVE ApplyExts(_, _)
ApplyExts(s, exts) ==
    IF exts = <<>> THEN s
    ELSE ApplyExts(SplitFirst(s, Head(exts)), Tail(exts))

\* "{} | {}".format(root.replace(os.sep, ' | '), s_name).lstrip('. | ')
PrependRoot(root, s) ==
    LStrip(ReplaceSep(root) \o <<" ", "|", " ">> \o s, {".", " ", "|"})

clean_s_name(name, root) ==
    LET r == IF root = None THEN <<>> ELSE root
        s == ApplyExts(name, fn_clean_exts)
    IN  IF prepend_dirs THEN PrependRoot(r, s) ELSE s

----------------------------------------------------------------------------
\* Values of the variables of the operations a specification does not run

NoPattern == [type |-> "NoneType", val |-> <<>>]

NameIdle ==
    /\ nm_pc = "init"
    /\ nm_s_name = <<>>
    /\ nm_root = <<>>
    /\ nm_first = <<>>
    /\ nm_second = <<>>

DiscIdle ==
    /\ fn_ignore_files = {}
    /\ files = <<>>
    /\ patterns = <<>>
    /\ filecontents = TRUE
    /\ filehandles = FALSE
    /\ pc = "start"
    /\ idx = 0
    /\ fn_match = NoPattern
    /\ contents_match = NoPattern
    /\ s_name = <<>>
    /\ fn_matched = FALSE
    /\ hstate = <<>>
    /\ closer = <<>>
    /\ fpos = 0
    /\ opens = <<>>
    /\ reads = <<>>
    /\ yielded = <<>>
    /\ log = {}

NoCall == [made |-> FALSE]

StatsIdle ==
    /\ general_stats = <<>>
    /\ gs_writer = <<>>
    /\ called = <<>>
    /\ last = NoCall
    /\ ncalls = 0

SrcIdle ==
    /\ data_sources = <<>>
    /\ ds_last = NoCall
    /\ ds_ncalls = 0

NoResult == [kind |-> "none"]

BarIdle ==
    /\ bar_pc = "init"
    /\ bar_data = [type |-> "list", val |-> <<>>]
    /\ bar_cats = [kind |-> "None"]
    /\ bar_result = NoResult

MplIdle ==
    /\ mpl_pc = "init"
    /\ mpl_plotdata = <<>>
    /\ mpl_plotsamples = <<>>
    /\ mpl_pconfig = <<>>
    /\ mpl_result = NoResult

----------------------------------------------------------------------------
\* Sample-name resolution applied twice

NameChars == {"a", "b", "."}
ExtTokens == { <<"b">>, <<".">>, <<".", "b">>, <<"a", "b">> }
NameRoots == { None, <<>>, <<".">>, <<"d">>, <<"d", "/", "b">>, <<"b", ".">> }

InitName ==
    /\ fn_clean_exts \in SeqsUpTo(ExtTokens, MaxExts)
    /\ prepend_dirs \in BOOLEAN
    /\ nm_pc = "init"
    /\ nm_s_name \in SeqsUpTo(NameChars, MaxNameLen)
    /\ nm_root \in NameRoots
    /\ nm_first = <<>>
    /\ nm_second = <<>>
    /\ DiscIdle
    /\ StatsIdle
    /\ SrcIdle
    /\ BarIdle
    /\ MplIdle

\* first resolution of the filename
Resolve ==
    /\ nm_pc = "init"
    /\ nm_first' = clean_s_name(nm_s_name, nm_root)
    /\ nm_pc' = "once"
    /\ UNCHANGED <<cfgVars, nm_s_name, nm_root, nm_second, discVars, statVars, plotVars>>

\* the resolved name is resolved again with the same root and configuration
ReResolve ==
    /\ nm_pc = "once"
    /\ nm_second' = clean_s_name(nm_first, nm_root)
    /\ nm_pc' = "twice"
    /\ UNCHANGED <<cfgVars, nm_s_name, nm_root, nm_first, discVars, statVars, plotVars>>

NextName == Resolve \/ ReResolve

SpecName == InitName /\ [][NextName]_vars

----------------------------------------------------------------------------
\* C6 (as stated): resolving an already resolved name again, with the same
\* root and the same configuration, returns the same string, for every
\* filename, root, token list and prepend_dirs setting.
C6_Idempotent == nm_pc = "twice" => nm_second = nm_first

\* C6 (amended): re-resolution returns the same string when prepend_dirs is
\* off or the root is empty or None; with a non-empty root and prepend_dirs
\* on, the root is prepended a second time.
C6_IdempotentNoPrepend ==
    (nm_pc = "twice" /\ (~prepend_dirs \/ nm_root \in {None, <<>>}))
        => nm_second = nm_first

\* a token truncated the name, and the second resolution has run
C6_Witness ==
    /\ nm_pc = "twice"
    /\ ~prepend_dirs
    /\ fn_clean_exts # <<>>
    /\ Len(nm_first) < Len(nm_s_name)
    /\ nm_first # <<>>

----------------------------------------------------------------------------
\* File discovery: find_log_files

MaxFiles == 2

\* config.log_filesize_limit
log_filesize_limit == 3

\* the tokens the callers search for
FnToken       == <<".", "l">>
ContentToken  == <<"k">>
ContentToken2 == <<"z">>

\* mimetypes.guess_type could not tell the type
NoType == <<>>

File(fn, ftype, encoding, size, statFails, openFails, lines, badLine) ==
    [root |-> <<"d">>, fn |-> fn, ftype |-> ftype, encoding |-> encoding,
     size |-> size, statFails |-> statFails, openFails |-> openFails,
     lines |-> lines, badLine |-> badLine]

\* The files a search root may hold.  ftype (<<major, minor>>) and encoding
\* are what mimetypes.guess_type answers, size is what os.path.getsize
\* answers (statFails: it raises OSError), openFails: io.open raises IOError,
\* badLine: the line whose bytes are not UTF-8 (0: none).
FileKinds ==
    { File(<<"a", ".", "l">>, NoType, "None", log_filesize_limit + 1,
           FALSE, FALSE, << <<"k">> >>, 0),
      File(<<"b">>, <<"text", "plain">>, "None", log_filesize_limit,
           FALSE, FALSE, << <<"x">>, <<"k", "x">> >>, 0),
      File(<<"c">>, NoType, "None", log_filesize_limit + 1,
           FALSE, FALSE, << <<"k">> >>, 0),
      File(<<"n">>, NoType, "None", log_filesize_limit - 1,
           FALSE, FALSE, << <<"x">> >>, 0),
      File(<<"g", ".", "z">>, NoType, "gzip", 1,
           FALSE, FALSE, << <<"k">> >>, 0),
      File(<<"p">>, <<"application", "pdf">>, "None", 1,
           FALSE, FALSE, << <<"k">> >>, 0),
      File(<<"s">>, NoType, "None", 1,
           TRUE, FALSE, << <<"k">> >>, 0),
      File(<<"e", ".", "l">>, NoType, "None", 1,
           FALSE, TRUE, << <<"k">> >>, 0),
      File(<<"u">>, NoType, "None", 2,
           FALSE, FALSE, << <<"k">>, <<"x">> >>, 2),
      File(<<"f", ".", "l">>, NoType, "None", 2,
           FALSE, FALSE, << <<"x">> >>, 1),
      File(<<"i", ".", "l">>, NoType, "None", 1,
           FALSE, FALSE, << <<"k">> >>, 0) }

\* The patterns argument: a dict with the keys 'fn' and 'contents', or fewer
PatternChoices ==
    LET fnP == [type |-> "str", val |-> FnToken]
        cP  == [type |-> "list", val |-> <<ContentToken2, ContentToken>>]
    IN  { <<>>,
          [k \in {"fn"} |-> fnP],
          [k \in {"contents"} |-> cP],
          [k \in {"fn", "contents"} |-> IF k = "fn" THEN fnP ELSE cP] }

InitDisc ==
    /\ fn_clean_exts = << FnToken >>
    /\ prepend_dirs = FALSE
    /\ NameIdle
    /\ fn_ignore_files = { <<"i", ".", "l">> }
    /\ files \in UNION { [1..n -> FileKinds] : n \in 0..MaxFiles }
    /\ patterns \in PatternChoices
    /\ filecontents \in BOOLEAN
    /\ filehandles \in BOOLEAN
    /\ pc = "start"
    /\ idx = 0
    /\ fn_match = NoPattern
    /\ contents_match = NoPattern
    /\ s_name = <<>>
    /\ fn_matched = FALSE
    /\ hstate = [i \in 1..Len(files) |-> "none"]
    /\ closer = [i \in 1..Len(files) |-> "none"]
    /\ fpos = 0
    /\ opens = [i \in 1..Len(files) |-> 0]
    /\ reads = [i \in 1..Len(files) |-> 0]
    /\ yielded = <<>>
    /\ log = {}
    /\ StatsIdle
    /\ SrcIdle
    /\ BarIdle
    /\ MplIdle

\* lines 53-56: patterns['fn'] when the key is present, else None
GetPattern(key) == IF key \in DOMAIN patterns THEN patterns[key] ELSE NoPattern

\* lines 93-96: a pattern given as one string becomes a list of one string
AsList(p) == IF p.type = "str" THEN [type |-> "list", val |-> <<p.val>>] ELSE p

\* line 85: fnmatch of the filename against the ignore patterns
Ignored(fn) == \E n \in fn_ignore_files : fn = n

\* lines 101-106: some name token is a substring of the filename
NameHit(fm, fn) ==
    /\ fm.type # "NoneType"
    /\ \E j \in 1..Len(fm.val) : Contains(fm.val[j], fn)

\* lines 111-115: the type sniff rejects the file
SniffRejects(f) ==
    \/ f.encoding # "None"
    \/ (f.ftype # NoType /\ f.ftype[1] # "text")

\* lines 135-139: some content token occurs in some line
ContentHit(cm, lines) ==
    \E l \in 1..Len(lines) : \E j \in 1..Len(cm.val) : Contains(cm.val[j], lines[l])

\* lines 120, 154: the exception classes the except clauses catch
ExceptSize(exc) == exc \in {"IOError", "OSError", "ValueError", "UnicodeDecodeError"}

ExceptRead_narrow(exc) == exc \in {"IOError", "OSError"}

ExceptRead(exc) == exc \in {"IOError", "OSError", "ValueError", "UnicodeDecodeError"}

TooLarge_inclusive(filesize) == filesize >= log_filesize_limit

\* line 123: the file is too large to be scanned
TooLarge(filesize) == filesize > log_filesize_limit

WithExit_leak(h, i) == h

\* line 130: leaving the with block closes the handle
WithExit(h, i) == [h EXCEPT ![i] = "closed"]

\* who closed handle i, after the with block of file i was left
CloserAfterExit(i) ==
    IF hstate[i] = "open" /\ WithExit(hstate, i)[i] = "closed"
    THEN [closer EXCEPT ![i] = "engine"] ELSE closer

ScansContents_always == contents_match.type # "NoneType"

\* line 134: the contents are scanned for the content tokens
ScansContents == contents_match.type # "NoneType" /\ ~fn_matched

\* the value of one yield
Match(i, kind, f) ==
    [i |-> i, kind |-> kind, s_name |-> s_name, f |-> f,
     root |-> IF i = 0 THEN <<>> ELSE files[i].root,
     fn |-> IF i = 0 THEN <<>> ELSE files[i].fn]

\* lines 50-59: the first next() runs the generator up to the file loop, or
\* to the yield of None when no pattern was given
Start ==
    /\ pc = "start"
    /\ fn_match' = GetPattern("fn")
    /\ contents_match' = GetPattern("contents")
    /\ idx' = 1
    /\ IF fn_match'.type = "NoneType" /\ contents_match'.type = "NoneType"
       THEN /\ log' = log \cup { <<"warning: no file patterns", 0>> }
            /\ yielded' = Append(yielded, Match(0, "None", <<>>))
            /\ pc' = "yield_none"
       ELSE /\ pc' = "loop"
            /\ UNCHANGED <<log, yielded>>
    /\ UNCHANGED <<cfgVars, nameVars, statVars, plotVars, argVars, s_name, fn_matched,
                   hstate, closer, fpos, opens, reads>>

\* the caller asks for the value after the None
ResumeNone ==
    /\ pc = "yield_none"
    /\ pc' = "loop"
    /\ UNCHANGED <<cfgVars, nameVars, statVars, plotVars, argVars, idx, fn_match, contents_match,
                   s_name, fn_matched, hstate, closer, fpos, opens, reads,
                   yielded, log>>

\* lines 78-126: one file of the list: ignore patterns, sample name, name
\* tokens, type sniff and size check decide whether the file is opened
CheckFile ==
    /\ pc = "loop"
    /\ idx <= Len(files)
    /\ LET f == files[idx] IN
       IF Ignored(f.fn)
       THEN /\ idx' = idx + 1
            /\ UNCHANGED <<pc, fn_match, contents_match, s_name, fn_matched, log>>
       ELSE /\ s_name' = clean_s_name(f.fn, f.root)
            /\ fn_match' = AsList(fn_match)
            /\ contents_match' = AsList(contents_match)
            /\ fn_matched' = NameHit(fn_match', f.fn)
            /\ IF fn_matched'
               THEN /\ pc' = "open"
                    /\ UNCHANGED <<idx, log>>
               ELSE IF contents_match'.type = "NoneType" \/ SniffRejects(f)
               THEN /\ idx' = idx + 1
                    /\ UNCHANGED <<pc, log>>
               ELSE IF f.statFails
               THEN IF ExceptSize("OSError")
                    THEN /\ log' = log \cup { <<"debug: filesize", idx>> }
                         /\ idx' = idx + 1
                         /\ UNCHANGED pc
                    ELSE /\ pc' = "raised"
                         /\ UNCHANGED <<idx, log>>
               ELSE IF TooLarge(f.size)
               THEN /\ log' = log \cup { <<"debug: too large", idx>> }
                    /\ idx' = idx + 1
                    /\ UNCHANGED pc
               ELSE /\ pc' = "open"
                    /\ UNCHANGED <<idx, log>>
    /\ UNCHANGED <<cfgVars, nameVars, statVars, plotVars, argVars, hstate, closer, fpos, opens,
                   reads, yielded>>

\* line 130: io.open
OpenFile ==
    /\ pc = "open"
    /\ opens' = [opens EXCEPT ![idx] = @ + 1]
    /\ IF files[idx].openFails
       THEN /\ IF ExceptRead("IOError")
               THEN /\ log' = log \cup { <<"debug: read", idx>> }
                    /\ idx' = idx + 1
                    /\ pc' = "loop"
               ELSE /\ pc' = "raised"
                    /\ UNCHANGED <<idx, log>>
            /\ UNCHANGED <<hstate, fpos>>
       ELSE /\ hstate' = [hstate EXCEPT ![idx] = "open"]
            /\ fpos' = 0
            /\ pc' = "scan"
            /\ UNCHANGED <<idx, log>>
    /\ UNCHANGED <<cfgVars, nameVars, statVars, plotVars, argVars, fn_match, contents_match,
                   s_name, fn_matched, closer, reads, yielded>>

\* lines 133-142: the scan for the content tokens, line by line to the end
\* of the file, then seek(0)
ScanFile ==
    /\ pc = "scan"
    /\ LET f == files[idx] IN
       IF ScansContents
       THEN IF f.badLine > 0
            THEN /\ hstate' = WithExit(hstate, idx)
                 /\ closer' = CloserAfterExit(idx)
                 /\ fpos' = f.badLine - 1
                 /\ IF ExceptRead("UnicodeDecodeError")
                    THEN /\ log' = log \cup { <<"debug: read", idx>> }
                         /\ idx' = idx + 1
                         /\ pc' = "loop"
                    ELSE /\ pc' = "raised"
                         /\ UNCHANGED <<idx, log>>
                 /\ UNCHANGED reads
            ELSE /\ reads' = [reads EXCEPT ![idx] = @ + 1]
                 /\ fpos' = 0
                 /\ IF ContentHit(contents_match, f.lines)
                    THEN /\ pc' = "emit"
                         /\ UNCHANGED <<idx, hstate, closer>>
                    ELSE /\ hstate' = WithExit(hstate, idx)
                         /\ closer' = CloserAfterExit(idx)
                         /\ idx' = idx + 1
                         /\ pc' = "loop"
                 /\ UNCHANGED log
       ELSE /\ pc' = "emit"
            /\ UNCHANGED <<idx, hstate, closer, fpos, reads, log>>
    /\ UNCHANGED <<cfgVars, nameVars, statVars, plotVars, argVars, fn_match, contents_match,
                   s_name, fn_matched, opens, yielded>>

\* lines 147-153: the yield of the match, in the form the caller asked for
Emit ==
    /\ pc = "emit"
    /\ LET f == files[idx] IN
       IF filehandles
       THEN /\ yielded' = Append(yielded, Match(idx, "handle", <<>>))
            /\ pc' = "yielded"
            /\ UNCHANGED <<idx, hstate, closer, fpos, reads, log>>
       ELSE IF filecontents
       THEN IF f.badLine > 0
            THEN /\ hstate' = WithExit(hstate, idx)
                 /\ closer' = CloserAfterExit(idx)
                 /\ fpos' = f.badLine - 1
                 /\ IF ExceptRead("UnicodeDecodeError")
                    THEN /\ log' = log \cup { <<"debug: read", idx>> }
                         /\ idx' = idx + 1
                         /\ pc' = "loop"
                    ELSE /\ pc' = "raised"
                         /\ UNCHANGED <<idx, log>>
                 /\ UNCHANGED <<reads, yielded>>
            ELSE /\ reads' = [reads EXCEPT ![idx] = @ + 1]
                 /\ fpos' = Len(f.lines)
                 /\ yielded' = Append(yielded, Match(idx, "contents", f.lines))
                 /\ pc' = "yielded"
                 /\ UNCHANGED <<idx, hstate, closer, log>>
       ELSE /\ yielded' = Append(yielded, Match(idx, "absent", <<>>))
            /\ pc' = "yielded"
            /\ UNCHANGED <<idx, hstate, closer, fpos, reads, log>>
    /\ UNCHANGED <<cfgVars, nameVars, statVars, plotVars, argVars, fn_match, contents_match,
                   s_name, fn_matched, opens>>

\* the caller asks for the next match: the generator leaves the with block
\* of the match it was suspended at and goes on with the next file
Resume ==
    /\ pc = "yielded"
    /\ hstate' = WithExit(hstate, idx)
    /\ closer' = CloserAfterExit(idx)
    /\ idx' = idx + 1
    /\ pc' = "loop"
    /\ UNCHANGED <<cfgVars, nameVars, statVars, plotVars, argVars, fn_match, contents_match,
                   s_name, fn_matched, fpos, opens, reads, yielded, log>>

\* line 78: the list of files is exhausted, the generator returns
Finish ==
    /\ pc = "loop"
    /\ idx > Len(files)
    /\ pc' = "done"
    /\ UNCHANGED <<cfgVars, nameVars, statVars, plotVars, argVars, idx, fn_match, contents_match,
                   s_name, fn_matched, hstate, closer, fpos, opens, reads,
                   yielded, log>>

\* the caller closes the handle it was given (handle mode)
CallerClose ==
    /\ pc = "yielded"
    /\ filehandles
    /\ hstate[idx] = "open"
    /\ hstate' = [hstate EXCEPT ![idx] = "closed"]
    /\ closer' = [closer EXCEPT ![idx] = "caller"]
    /\ UNCHANGED <<cfgVars, nameVars, statVars, plotVars, argVars, pc, idx, fn_match,
                   contents_match, s_name, fn_matched, fpos, opens, reads,
                   yielded, log>>

Next ==
    \/ Start
    \/ ResumeNone
    \/ CheckFile
    \/ OpenFile
    \/ ScanFile
    \/ Emit
    \/ Resume
    \/ Finish
    \/ CallerClose

Spec == InitDisc /\ [][Next]_vars

----------------------------------------------------------------------------
\* Discovery: what the claims speak about

ContentsMode == ~filehandles /\ filecontents

OpenHandles == { i \in DOMAIN hstate : hstate[i] = "open" }

YieldedFiles == { yielded[j].i : j \in 1..Len(yielded) } \ {0}

\* the generator is suspended at the yield of file i
SuspendedAt(i) == pc = "yielded" /\ idx = i

NameMatches(i) == NameHit(AsList(GetPattern("fn")), files[i].fn)

HasContentTokens == GetPattern("contents").type # "NoneType"

\* an except clause handled a failure of file i
Failed(i) == <<"debug: filesize", i>> \in log \/ <<"debug: read", i>> \in log

\* the match rule of the search, failures apart
MatchRule(i) ==
    /\ ~Ignored(files[i].fn)
    /\ \/ NameMatches(i)
       \/ /\ HasContentTokens
          /\ ~SniffRejects(files[i])
          /\ files[i].size <= log_filesize_limit
          /\ ContentHit(AsList(GetPattern("contents")), files[i].lines)

\* C1 (as stated): in contents mode no handle opened by discovery is open
\* while the generator is suspended at the yield of a match.
C1_ClosedAtYield ==
    (ContentsMode /\ pc = "yielded") => OpenHandles = {}

\* C1 (amended): in contents mode the handle of the yielded match is still
\* open while the generator is suspended at its yield and is closed when the
\* generator is resumed; no other handle is open, so at most one handle is
\* open at any time, whatever the number of files walked.
C1_OneOpenAtYield ==
    ContentsMode =>
        /\ \A i \in OpenHandles : i = idx /\ pc \in {"scan", "emit", "yielded"}
        /\ pc = "yielded" => OpenHandles = {idx}

\* two contents-mode matches were yielded and the generator was resumed twice
C1_Witness ==
    /\ ContentsMode
    /\ pc = "loop"
    /\ Cardinality(YieldedFiles) >= 2
    /\ \A i \in YieldedFiles : hstate[i] = "closed"

\* C2 (as stated): in handle mode the engine never closes a handle it has
\* yielded; only the caller does.
C2_EngineNeverCloses ==
    filehandles => \A i \in YieldedFiles : closer[i] # "engine"

\* C2 (amended): in handle mode a yielded handle is open while the generator
\* is suspended at its yield, unless the caller closed it; the first later
\* step of the generator (the advance to the next match or to exhaustion)
\* closes it.
C2_OpenWhileSuspended ==
    filehandles =>
        \A i \in YieldedFiles :
            IF SuspendedAt(i)
            THEN hstate[i] = "open" \/ closer[i] = "caller"
            ELSE hstate[i] = "closed"

\* a handle was yielded, left open by the caller and closed by the resumed
\* generator
C2_Witness ==
    /\ filehandles
    /\ \E i \in YieldedFiles : ~SuspendedAt(i) /\ closer[i] = "engine"

\* C3 (as stated): no file is read in full more than once in one call.
C3_ReadAtMostOnce == \A i \in DOMAIN reads : reads[i] <= 1

\* C3 (amended): a file is read in full at most twice in one call, and
\* twice only when it matched by a content token in contents mode (once by
\* the scan, once for the yielded text); a file matched by name, or any file
\* in handle or metadata mode, is read in full at most once.
C3_ReadAtMostTwice ==
    \A i \in DOMAIN reads :
        reads[i] <= (IF ContentsMode /\ ~NameMatches(i) THEN 2 ELSE 1)

\* a content-matched file was scanned and then read for its text
C3_Witness ==
    \E i \in YieldedFiles : reads[i] = 2 /\ ~NameMatches(i)

\* C4: a file that no name token matches and that is larger than
\* log_filesize_limit is never opened, read or yielded; a file of exactly
\* log_filesize_limit bytes that reaches the size check is opened.
C4_LargeNeverRead ==
    \A i \in DOMAIN files :
        /\ (~NameMatches(i) /\ files[i].size > log_filesize_limit)
              => /\ opens[i] = 0
                 /\ reads[i] = 0
                 /\ hstate[i] = "none"
                 /\ i \notin YieldedFiles
        /\ (/\ idx > i
            /\ ~Ignored(files[i].fn)
            /\ ~NameMatches(i)
            /\ HasContentTokens
            /\ ~SniffRejects(files[i])
            /\ ~files[i].statFails
            /\ files[i].size = log_filesize_limit)
              => opens[i] >= 1

\* the walk passed a file rejected for its size and yielded one of exactly
\* the limit
C4_Witness ==
    /\ pc = "done"
    /\ \E i \in DOMAIN files : <<"debug: too large", i>> \in log
    /\ \E i \in YieldedFiles :
          ~NameMatches(i) /\ files[i].size = log_filesize_limit

\* C5: no failure of one file reaches the caller or ends the walk: the
\* failing file is not yielded, and when the walk is over every file that
\* satisfies the match rule and did not fail has been yielded.
C5_FailuresSkipped ==
    /\ pc # "raised"
    /\ \A i \in DOMAIN files : Failed(i) => i \notin YieldedFiles
    /\ pc = "done" =>
          \A i \in DOMAIN files :
              (MatchRule(i) /\ ~Failed(i)) => i \in YieldedFiles

\* the first file failed while it was read, the second one was yielded
C5_Witness ==
    /\ pc = "done"
    /\ Len(files) >= 2
    /\ <<"debug: read", 1>> \in log
    /\ hstate[1] = "closed"
    /\ 2 \in YieldedFiles

----------------------------------------------------------------------------
\* General Statistics: general_stats_addcols

MaxCalls == 2

\* Python dict: d[k] = v
SetItem(d, k, v) == (k :> v) @@ d

\* the element of a set of one element; Only({ F(x) : x \in {e} }) is F(e)
\* with e evaluated once, as an assignment to a local variable x does
Only(S) == CHOOSE y \in S : TRUE

\* the orders a dict of these keys may be iterated in
Orders(S) ==
    { p \in [1..Cardinality(S) -> S] : \A i, j \in DOMAIN p : p[i] = p[j] => i = j }

\* Python floats: a finite value, float("inf") or float("-inf")
Fin(n) == [inf |-> 0, v |-> n]
PosInf == [inf |-> 1, v |-> 0]
NegInf == [inf |-> -1, v |-> 0]

LessF(a, b) == a.inf < b.inf \/ (a.inf = 0 /\ b.inf = 0 /\ a.v < b.v)

\* Python: max(a, b), min(a, b)
MaxF(a, b) == IF LessF(a, b) THEN b ELSE a
MinF(a, b) == IF LessF(b, a) THEN b ELSE a

\* a value of a sample: a number, or a string that float() rejects
Num(n) == [num |-> TRUE, v |-> n]
NotANumber == [num |-> FALSE, v |-> 0]

\* the value-transform callback of the headers of the model
Modify(x) == IF x.inf = 0 THEN Fin(2 * x.v) ELSE x

\* callable(headers[k]['modify'])
Callable(m) == m = "double"

\* Python: c.isalnum(), c.lower()
IsAlnum(c) == c \in {"a", "b", "c", "A", "B", "C"}
Lower(c) == CASE c = "A" -> "a" [] c = "B" -> "b" [] c = "C" -> "c" [] OTHER -> c

\* line 199 without the isalnum filter
RECURSIVE safe_name_unfiltered(_)
safe_name_unfiltered(name) ==
    IF name = <<>> THEN <<>>
    ELSE <<Lower(Head(name))>> \o safe_name_unfiltered(Tail(name))

\* line 199: ''.join(c for c in self.name if c.isalnum()).lower()
RECURSIVE safe_name(_)
safe_name(name) ==
    IF name = <<>> THEN <<>>
    ELSE (IF IsAlnum(Head(name)) THEN <<Lower(Head(name))>> ELSE <<>>)
         \o safe_name(Tail(name))

\* Python: '{}'.format(self.name)
Str(name) == IF name = None THEN <<"N", "o", "n", "e">> ELSE name

\* lines 196-200: the id of the header of key k
Rid(name, rnd, k) ==
    (IF name = None THEN rnd ELSE safe_name(name)) \o <<"_">> \o k

\* lines 196-213: id and defaults of the header h of key k
HeaderDefaults(h, k, name, rnd) ==
    LET title == IF "title" \in DOMAIN h THEN h.title ELSE k
    IN  ("rid" :> Rid(name, rnd, k)) @@ h @@
        ("title" :> title) @@
        ("description" :> Str(name) \o <<":", " ">> \o title) @@
        ("scale" :> "GnBu") @@
        ("format" :> "{:.1f}")

\* lines 233-239: the value of one sample moves dmax and dmin of header h
UpdateBounds(h, v, setdmax, setdmin) ==
    LET val == IF "modify" \in DOMAIN h /\ Callable(h.modify)
               THEN Modify(Fin(v)) ELSE Fin(v)
    IN  (IF setdmax THEN ("dmax" :> MaxF(h.dmax, val)) ELSE <<>>) @@
        (IF setdmin THEN ("dmin" :> MinF(h.dmin, val)) ELSE <<>>) @@ h

\* lines 231-241: the samples, in iteration order, move dmax and dmin of the
\* header h of key k; a KeyError is passed over, any other error ends the scan
RECURSIVE ScanSamples(_, _, _, _, _, _)
ScanSamples(order, h, k, data, setdmax, setdmin) ==
    IF order = <<>> THEN [h |-> h, err |-> "none"]
    ELSE LET samp == data[Head(order)] IN
         IF k \notin DOMAIN samp
         THEN ScanSamples(Tail(order), h, k, data, setdmax, setdmin)
         ELSE IF ~samp[k].num
         THEN [h |-> h, err |-> "ValueError"]
         ELSE Only({ ScanSamples(Tail(order), h1, k, data, setdmax, setdmin) :
                       h1 \in { UpdateBounds(h, samp[k].v, setdmax, setdmin) } })

\* lines 215-227: dmax and dmin start from the configured bounds, or from
\* -inf and inf when none is configured
InitBounds(h) ==
    ("dmax" :> IF "max" \in DOMAIN h THEN h.max ELSE NegInf) @@
    ("dmin" :> IF "min" \in DOMAIN h THEN h.min ELSE PosInf) @@ h

\* lines 195-241: one iteration of the loop over the keys
ProcessKey(k, H, data, name, rnd, sampOrder) ==
    IF k \notin DOMAIN H THEN [H |-> H, err |-> "KeyError"]
    ELSE Only({ LET setdmax == "max" \notin DOMAIN h
                    setdmin == "min" \notin DOMAIN h
                IN  IF setdmax \/ setdmin
                    THEN Only({ [H |-> SetItem(H, k, r.h), err |-> r.err] :
                                  r \in { ScanSamples(sampOrder, h, k, data,
                                                      setdmax, setdmin) } })
                    ELSE [H |-> SetItem(H, k, h), err |-> "none"] :
                  h \in { InitBounds(HeaderDefaults(H[k], k, name, rnd)) } })

\* lines 194-246: the loop over the keys; assigned: line 243 has run, so that
\* report.general_stats[namespace] refers to data and to the headers dict
RECURSIVE AddColsLoop(_, _, _, _, _, _, _)
AddColsLoop(ks, H, assigned, data, name, rnd, sampOrder) ==
    IF ks = <<>> THEN [H |-> H, assigned |-> assigned, err |-> "none"]
    ELSE Only({ IF r.err # "none"
                THEN [H |-> r.H, assigned |-> assigned, err |-> r.err]
                ELSE AddColsLoop(Tail(ks), r.H, TRUE, data, name, rnd, sampOrder) :
                  r \in { ProcessKey(Head(ks), H, data, name, rnd, sampOrder) } })

\* lines 191-193: the keys the loop runs over
LoopKeys(data, headers) ==
    IF Cardinality(DOMAIN headers) > 0 THEN DOMAIN headers ELSE DOMAIN data

\* the inputs of the calls
S1 == <<"s", "1">>
S2 == <<"s", "2">>
Depth == <<"c">>
Qual  == <<"b", "_", "c">>

ModuleNames == { <<"a">>, <<"A">>, <<"a", "_", "b">>, None }
NamespaceArgs == { None, <<"a">> }
RandomSamples == { <<"q", "r", "s", "t">> }

DataChoices ==
    { <<>>,
      [s \in {S1, S2} |-> [k \in {Depth} |-> IF s = S1 THEN Num(10) ELSE Num(20)]],
      [s \in {S1, S2} |-> IF s = S1 THEN [k \in {Depth, Qual} |-> IF k = Depth THEN Num(3) ELSE Num(1)]
                          ELSE [k \in {Qual} |-> Num(2)]],
      [s \in {S1, S2} |-> [k \in {Depth} |-> IF s = S1 THEN NotANumber ELSE Num(2)]] }

HeaderChoices ==
    { <<>>,
      [k \in {Depth} |-> <<>>],
      [k \in {Depth, Qual} |-> IF k = Depth THEN [max |-> Fin(5), min |-> Fin(0)]
                               ELSE [title |-> <<"T">>, modify |-> "double"]] }

InitStats ==
    /\ fn_clean_exts = <<>>
    /\ prepend_dirs = FALSE
    /\ NameIdle
    /\ DiscIdle
    /\ StatsIdle
    /\ SrcIdle
    /\ BarIdle
    /\ MplIdle

general_stats_addcols ==
    /\ ncalls < MaxCalls
    /\ \E name \in ModuleNames, nsarg \in NamespaceArgs,
          data \in DataChoices, headers \in HeaderChoices :
       \E rnd \in (IF name = None THEN RandomSamples ELSE {<<>>}),
          keyOrder \in Orders(LoopKeys(data, headers)),
          sampOrder \in Orders(DOMAIN data) :
       \E r \in { AddColsLoop(keyOrder, headers, FALSE, data, name, rnd, sampOrder) } :
          LET namespace == IF nsarg = None THEN name ELSE nsarg
              entry == [data |-> data, headers |-> r.H]
          IN  /\ general_stats' = IF r.assigned
                                  THEN SetItem(general_stats, namespace, entry)
                                  ELSE general_stats
              /\ gs_writer' = IF r.assigned
                              THEN SetItem(gs_writer, namespace, name)
                              ELSE gs_writer
              /\ called' = SetItem(called, namespace, entry)
              /\ last' = [made |-> TRUE, name |-> name, namespace |-> namespace,
                          data |-> data, headers |-> headers,
                          headers_out |-> r.H, err |-> r.err]
              /\ ncalls' = ncalls + 1
    /\ UNCHANGED <<cfgVars, nameVars, discVars, plotVars>>

NextStats == general_stats_addcols

SpecStats == InitStats /\ [][NextStats]_vars

----------------------------------------------------------------------------
\* General Statistics: what the claims speak about

\* the metric keys that appear in some sample of data
MetricKeys(data) == UNION { DOMAIN data[s] : s \in DOMAIN data }

\* the numeric values at key k over all samples, after the value-transform
\* of header h when it has one
ValuesAt(data, k, h) ==
    { IF "modify" \in DOMAIN h /\ Callable(h.modify)
      THEN Modify(Fin(data[s][k].v)) ELSE Fin(data[s][k].v) :
        s \in { t \in DOMAIN data : k \in DOMAIN data[t] /\ data[t][k].num } }

TrueMin(V) == CHOOSE x \in V : \A y \in V : ~LessF(y, x)
TrueMax(V) == CHOOSE x \in V : \A y \in V : ~LessF(x, y)

\* the ids of the headers registered under namespace ns
Rids(ns) ==
    { general_stats[ns].headers[k].rid :
        k \in { j \in DOMAIN general_stats[ns].headers :
                  "rid" \in DOMAIN general_stats[ns].headers[j] } }

\* C7 (as stated): after any sequence of calls the entry of each namespace
\* is exactly the data and the headers of the last call made for that
\* namespace, empty ones included.
C7_LastCallReplaces ==
    \A ns \in DOMAIN called :
        /\ ns \in DOMAIN general_stats
        /\ general_stats[ns].data = called[ns].data
        /\ general_stats[ns].headers = called[ns].headers

\* C8 (as stated): a call with empty headers and data completes without
\* error and leaves one header per metric key of the data, with the default
\* title, description, colour scale and format and with derived bounds.
C8_HeadersFromData ==
    (last.made /\ DOMAIN last.headers = {} /\ MetricKeys(last.data) # {}) =>
        /\ last.err = "none"
        /\ last.namespace \in DOMAIN general_stats
        /\ DOMAIN general_stats[last.namespace].headers = MetricKeys(last.data)
        /\ \A k \in MetricKeys(last.data) :
              LET h == general_stats[last.namespace].headers[k]
                  V == ValuesAt(last.data, k, <<>>)
              IN  /\ h.title = k
                  /\ h.description = Str(last.name) \o <<":", " ">> \o k
                  /\ h.scale = "GnBu"
                  /\ h.format = "{:.1f}"
                  /\ V # {} => (h.dmin = TrueMin(V) /\ h.dmax = TrueMax(V))

\* C9 (as stated): for every key of the headers with no configured min
\* (max), the call completes and the derived min (max) is the true minimum
\* (maximum) of the numeric values at that key; samples without the key or
\* with a non-numeric value are ignored.
C9_DerivedBounds ==
    (last.made /\ DOMAIN last.headers # {}) =>
        /\ last.err = "none"
        /\ \A k \in DOMAIN last.headers :
              LET V == ValuesAt(last.data, k, last.headers[k])
                  h == last.headers_out[k]
              IN  /\ ("min" \notin DOMAIN last.headers[k] /\ V # {})
                        => h.dmin = TrueMin(V)
                  /\ ("max" \notin DOMAIN last.headers[k] /\ V # {})
                        => h.dmax = TrueMax(V)

----------------------------------------------------------------------------
\* Bar graphs: plot_bargraph
\*
\* A sample name is written as a natural number, its rank in the order that
\* sorted() puts sample names in.  A dataset is a dict sample -> (category
\* key -> value).  The data argument is one dataset or a list of datasets;
\* the cats argument is None, a list of category keys, an OrderedDict
\* key -> {'name': .., 'color': ..} (written as the sequence of its items),
\* or a list of these, one for each dataset.

MaxDatasets == 2

\* line 404: above this number of samples the static image is drawn
matplotlib_switch == 50

CatKeys == { "A", "B" }

Dict(d) == [type |-> "dict", val |-> d]
List(l) == [type |-> "list", val |-> l]

CatsNone == [kind |-> "None"]
CatsNames(l) == [kind |-> "names", val |-> l]
CatsDict(items) == [kind |-> "dict", val |-> items]
CatsList(l) == [kind |-> "list", val |-> l]

Item(k, conf) == [key |-> k, conf |-> conf]

\* the datasets the calls are made with
DatasetChoices ==
    { (1 :> ("A" :> 5 @@ "B" :> 0)) @@ (2 :> ("A" :> 3 @@ "B" :> 0)),
      (1 :> ("A" :> 0 @@ "B" :> -1)),
      (1 :> ("A" :> 2)) @@ (2 :> ("B" :> 4)),
      (1 :> ("A" :> -1 @@ "B" :> 7)) @@ (2 :> ("A" :> 0 @@ "B" :> 1)),
      <<>>,
      [s \in 1..(matplotlib_switch + 1) |-> ("A" :> 1)] }

\* the lists of datasets the calls are made with
DatasetLists == UNION { [1..n -> DatasetChoices] : n \in 0..MaxDatasets }

AlphaBeta ==
    <<Item("A", ("name" :> "Alpha") @@ ("color" :> "#ff0000")),
      Item("B", ("name" :> "Beta"))>>

BetaOnly == <<Item("B", ("name" :> "Beta"))>>

\* the category arguments the calls are made with
CatsChoices ==
    << CatsNone,
      CatsNames(<<"A", "B">>),
      CatsNames(<<"B">>),
      CatsNames(<<>>),
      CatsDict(AlphaBeta),
      CatsList(<<CatsDict(AlphaBeta)>>),
      CatsList(<<CatsDict(AlphaBeta), CatsNone>>),
      CatsList(<<CatsDict(BetaOnly), CatsDict(AlphaBeta)>>),
      CatsList(<<CatsDict(AlphaBeta), CatsNames(<<"B", "A">>)>>) >>

InitBar ==
    /\ fn_clean_exts = <<>>
    /\ prepend_dirs = FALSE
    /\ NameIdle
    /\ DiscIdle
    /\ StatsIdle
    /\ SrcIdle
    /\ MplIdle
    /\ bar_pc = "init"
    /\ \/ \E d \in DatasetChoices : bar_data = Dict(d)
       \/ \E l \in DatasetLists : bar_data = List(l)
    /\ \E i \in DOMAIN CatsChoices : bar_cats = CatsChoices[i]
    /\ bar_result = NoResult

Raised(exc) == [kind |-> "raised", exc |-> exc]

\* lines 355-356: one dataset is turned into a list
DataList(data) == IF data.type # "list" THEN <<data.val>> ELSE data.val

\* lines 359-362: cats[0].keys() decides whether cats is a list of category
\* specifications already.  None[0] is a TypeError and [][0] an IndexError,
\* neither is caught; 'A'.keys() is an AttributeError and a dict without the
\* key 0 a KeyError, both are caught and cats is wrapped in a list.  The
\* lists of CatsChoices start with a dict.
CheckCatsList(cats) ==
    CASE cats.kind = "None"  -> Raised("TypeError")
      [] cats.kind = "names" -> IF cats.val = <<>> THEN Raised("IndexError")
                                ELSE [kind |-> "ok", cats |-> <<cats>>]
      [] cats.kind = "dict"  -> [kind |-> "ok", cats |-> <<cats>>]
      [] cats.kind = "list"  -> IF cats.val = <<>> THEN Raised("IndexError")
                                ELSE [kind |-> "ok", cats |-> cats.val]

\* line 367: the keys of all samples of a dataset; list(set(..)) puts them in
\* an order of its own, order is the order of that run
KeysOfData(d, order) ==
    SelectSeq(order, LAMBDA k : \E smp \in DOMAIN d : k \in DOMAIN d[smp])

\* lines 370-375: a list of keys becomes the OrderedDict key -> {'name': key}
NamesToDict(cat) ==
    IF cat.kind = "names"
    THEN CatsDict([i \in DOMAIN cat.val |-> Item(cat.val[i], ("name" :> cat.val[i]))])
    ELSE cat

\* lines 365-375: absent categories are found from the data of the same
\* index, data[idx] is an IndexError when there is no such dataset
FindCats(cats, data, order) ==
    IF \E i \in DOMAIN cats : cats[i].kind = "None" /\ i > Len(data)
    THEN Raised("IndexError")
    ELSE [kind |-> "ok",
          cats |-> [i \in DOMAIN cats |->
                      NamesToDict(IF cats[i].kind = "None"
                                  THEN CatsNames(KeysOfData(data[i], order))
                                  ELSE cats[i])]]

\* line 380: sorted(list(d.keys()))
Sorted(S) ==
    [i \in 1..Cardinality(S) |->
        CHOOSE x \in S : Cardinality({ y \in S : y < x }) = i - 1]

\* lines 385-389: the values of category c, in sample order; a sample without
\* the category is passed over (KeyError)
ThisData(d, hc_samples, c) ==
    LET have == SelectSeq(hc_samples, LAMBDA smp : c \in DOMAIN d[smp])
    IN  [i \in DOMAIN have |-> d[have[i]][c]]

\* Python: max(l) of a list that is not empty
MaxOf(l) == CHOOSE m \in { l[i] : i \in DOMAIN l } : \A i \in DOMAIN l : l[i] <= m

\* line 390: len(thisdata) > 0 and max(thisdata) > 0
SeriesKept(thisdata) == Len(thisdata) > 0 /\ MaxOf(thisdata) > 0

\* lines 391-393: the series of a category
ThisDict(item, thisdata) ==
    ("name" :> item.conf["name"]) @@ ("data" :> thisdata) @@
    (IF "color" \in DOMAIN item.conf THEN ("color" :> item.conf["color"]) ELSE <<>>)

\* lines 381-394: the series of a dataset, in the order of its categories
HcData(d, cat, hc_samples) ==
    LET all == [i \in DOMAIN cat.val |->
                  ThisDict(cat.val[i], ThisData(d, hc_samples, cat.val[i].key))]
    IN  SelectSeq(all, LAMBDA series : SeriesKept(series["data"]))

\* lines 377-397: the datasets from index di on are parsed; cats[idx] is an
\* IndexError when cats is shorter than data
RECURSIVE ParseData(_, _, _, _, _)
ParseData(data, cats, di, plotsamples, plotdata) ==
    IF di > Len(data)
    THEN [kind |-> "ok", plotsamples |-> plotsamples, plotdata |-> plotdata]
    ELSE IF di > Len(cats) THEN Raised("IndexError")
    ELSE \* hc_samples and hc_data are computed once, as locals are
         Only({ IF hc[2] # <<>>
                THEN ParseData(data, cats, di + 1,
                               Append(plotsamples, hc[1]), Append(plotdata, hc[2]))
                ELSE ParseData(data, cats, di + 1, plotsamples, plotdata) :
                hc \in { Only({ <<smps, HcData(data[di], cats[di], smps)>> :
                                smps \in { Sorted(DOMAIN data[di]) } }) } })

\* lines 399-407: no dataset left is the error paragraph and a warning;
\* otherwise the first sample list chooses who draws the datasets
Render(plotdata, plotsamples) ==
    IF Len(plotdata) = 0
    THEN [kind |-> "error_html", warned |-> TRUE]
    ELSE [kind |-> "plot",
          by |-> IF Len(plotsamples[1]) > matplotlib_switch
                 THEN "matplotlib" ELSE "highcharts",
          plotdata |-> plotdata,
          plotsamples |-> plotsamples]

\* lines 343-407
PlotBargraph(data_arg, cats_arg, order) ==
    LET data == DataList(data_arg)
        chk  == CheckCatsList(cats_arg)
    IN  IF chk.kind = "raised" THEN chk
        ELSE LET found == FindCats(chk.cats, data, order) IN
             IF found.kind = "raised" THEN found
             ELSE LET parsed == ParseData(data, found.cats, 1, <<>>, <<>>) IN
                  IF parsed.kind = "raised" THEN parsed
                  ELSE Render(parsed.plotdata, parsed.plotsamples)

plot_bargraph ==
    /\ bar_pc = "init"
    /\ \E order \in Orders(CatKeys) :
         \E r \in { PlotBargraph(bar_data, bar_cats, order) } :
            bar_result' = r
    /\ bar_pc' = "done"
    /\ UNCHANGED <<cfgVars, nameVars, discVars, statVars, srcVars, mplVars,
                   bar_data, bar_cats>>

NextBar == plot_bargraph

SpecBar == InitBar /\ [][NextBar]_vars

----------------------------------------------------------------------------
\* Claim about plot_bargraph

\* the datasets of the call
CallData == DataList(bar_data)

\* the category specification the call gives for dataset i: one for each
\* dataset when cats is a list of specifications, the same for every dataset
\* otherwise; none given is absent
SpecFor(i) ==
    IF bar_cats.kind = "list"
    THEN IF i <= Len(bar_cats.val) THEN bar_cats.val[i] ELSE CatsNone
    ELSE bar_cats

\* the categories of dataset d under a specification, as <<key, name>>:
\* absent categories are the keys of the samples of d
CatPairs(cat, d) ==
    CASE cat.kind = "None"  -> { <<k, k>> : k \in UNION { DOMAIN d[smp] : smp \in DOMAIN d } }
      [] cat.kind = "names" -> { <<cat.val[i], cat.val[i]>> : i \in DOMAIN cat.val }
      [] cat.kind = "dict"  -> { <<cat.val[i].key, cat.val[i].conf["name"]>> : i \in DOMAIN cat.val }

\* some sample of d has a positive value at category c
HasPositive(d, c) == \E smp \in DOMAIN d : c \in DOMAIN d[smp] /\ d[smp][c] > 0

\* the categories of dataset i whose series is not dropped
KeptCats(i) ==
    { p \in CatPairs(SpecFor(i), CallData[i]) : HasPositive(CallData[i], p[1]) }

\* the datasets that are not dropped, in input order
Retained ==
    SelectSeq([i \in 1..Len(CallData) |-> i], LAMBDA i : KeptCats(i) # {})

\* l lists the elements of S in ascending order
IsSortedListOf(l, S) ==
    /\ { l[i] : i \in DOMAIN l } = S
    /\ \A i, j \in DOMAIN l : i < j => l[i] < l[j]

\* C11: a finished call of plot_bargraph has returned; it returned the "no
\* data" error exactly when every dataset was dropped (none of its category
\* series has a positive value); otherwise it handed on the retained datasets
\* and their sorted sample lists, as many of the one as of the other, in
\* input order, each dataset with the series of its categories that have a
\* positive value.
C11_DropsAndReturns ==
    bar_pc = "done" =>
        /\ bar_result.kind \in { "error_html", "plot" }
        /\ bar_result.kind = "error_html" <=> Retained = <<>>
        /\ bar_result.kind = "plot" =>
            /\ Len(bar_result.plotdata) = Len(Retained)
            /\ Len(bar_result.plotsamples) = Len(Retained)
            /\ \A j \in DOMAIN Retained :
                /\ IsSortedListOf(bar_result.plotsamples[j],
                                  DOMAIN CallData[Retained[j]])
                /\ { bar_result.plotdata[j][n]["name"] :
                        n \in DOMAIN bar_result.plotdata[j] }
                      = { p[2] : p \in KeptCats(Retained[j]) }
                /\ \A n \in DOMAIN bar_result.plotdata[j] :
                      \E v \in DOMAIN bar_result.plotdata[j][n]["data"] :
                          bar_result.plotdata[j][n]["data"][v] > 0

----------------------------------------------------------------------------
\* Data sources: add_data_source

MaxSrcCalls == 2

\* self.name of the module that records its sources
SelfName == <<"a">>

\* the directory the program runs in
Cwd == <<"/", "w">>

\* the f argument: None, or a dict as find_log_files yields them
FNone == [kind |-> "None"]
FDict(d) == [kind |-> "dict", val |-> d]

\* the arguments the calls are made with
FChoices ==
    { FNone,
      FDict(("s_name" :> <<"s", "2">>) @@ ("root" :> <<".">>) @@ ("fn" :> <<"f">>)),
      FDict(("s_name" :> <<"s", "2">>) @@ ("root" :> <<"/", "r", "/">>) @@ ("fn" :> <<"f">>)),
      FDict(("s_name" :> <<"s", "2">>) @@ ("root" :> <<"r", "/", ".", ".">>) @@ ("fn" :> <<"f">>)),
      FDict(("s_name" :> <<"s", "2">>) @@ ("root" :> None) @@ ("fn" :> <<"f">>)),
      FDict(("s_name" :> <<"s", "2">>) @@ ("fn" :> <<"f">>)) }

SNameChoices == { None, <<"s", "1">> }
SourceChoices == { None, <<"/", "x">> }
ModuleChoices == { None, <<"m">> }
SectionChoices == { None, <<"q">> }

\* the interpreters the module runs under (it imports print_function from
\* __future__): os.path.join(None, 'f') is an AttributeError under Python 2
\* and a TypeError under Python 3
Interpreters == { 2, 3 }

InitSrc ==
    /\ fn_clean_exts = <<>>
    /\ prepend_dirs = FALSE
    /\ NameIdle
    /\ DiscIdle
    /\ StatsIdle
    /\ BarIdle
    /\ MplIdle
    /\ data_sources = <<>>
    /\ ds_last = NoCall
    /\ ds_ncalls = 0

\* the components of a path between its separators
RECURSIVE PathParts(_, _, _)
PathParts(path, part, parts) ==
    IF path = <<>> THEN Append(parts, part)
    ELSE IF Head(path) = os_sep THEN PathParts(Tail(path), <<>>, Append(parts, part))
    ELSE PathParts(Tail(path), Append(part, Head(path)), parts)

\* os.path.normpath of an absolute path: empty and '.' components go, '..'
\* takes the component before it with it
RECURSIVE NormParts(_, _)
NormParts(parts, kept) ==
    IF parts = <<>> THEN kept
    ELSE IF Head(parts) \in { <<>>, <<".">> } THEN NormParts(Tail(parts), kept)
    ELSE IF Head(parts) = <<".", ".">>
         THEN NormParts(Tail(parts),
                        IF kept = <<>> THEN kept ELSE SubSeq(kept, 1, Len(kept) - 1))
    ELSE NormParts(Tail(parts), Append(kept, Head(parts)))

RECURSIVE JoinParts(_)
JoinParts(parts) ==
    IF parts = <<>> THEN <<>>
    ELSE <<os_sep>> \o Head(parts) \o JoinParts(Tail(parts))

IsAbs(path) == path # <<>> /\ Head(path) = os_sep

\* os.path.join(a, b)
PathJoin(a, b) ==
    IF IsAbs(b) THEN b
    ELSE IF a = <<>> \/ a[Len(a)] = os_sep THEN a \o b
    ELSE a \o <<os_sep>> \o b

\* os.path.abspath(path)
AbsPath(path) ==
    LET full  == IF IsAbs(path) THEN path ELSE PathJoin(Cwd, path)
        parts == NormParts(PathParts(full, <<>>, <<>>), <<>>)
    IN  IF parts = <<>> THEN <<os_sep>> ELSE JoinParts(parts)

\* f[key]: None is not subscriptable, a dict without the key is a KeyError
GetField(f, key) ==
    IF f.kind = "None" THEN Raised("TypeError")
    ELSE IF key \notin DOMAIN f.val THEN Raised("KeyError")
    ELSE [kind |-> "ok", val |-> f.val[key]]

\* line 259: os.path.abspath(os.path.join(f['root'], f['fn']))
SourceOf(f, py) ==
    LET root == GetField(f, "root")
        fn   == GetField(f, "fn")
    IN  IF root.kind = "raised" THEN root
        ELSE IF fn.kind = "raised" THEN fn
        ELSE IF root.val = None \/ fn.val = None
             THEN Raised(IF py = 2 THEN "AttributeError" ELSE "TypeError")
        ELSE [kind |-> "ok", val |-> AbsPath(PathJoin(root.val, fn.val))]

\* lines 251-260: the body of the try statement
RecordSource(f, sn, source, module, section, py) ==
    LET m   == IF module = None THEN SelfName ELSE module
        sec == IF section = None
               THEN <<"a","l","l","_","s","e","c","t","i","o","n","s">> ELSE section
        s   == IF sn = None THEN GetField(f, "s_name") ELSE [kind |-> "ok", val |-> sn]
        src == IF source = None THEN SourceOf(f, py) ELSE [kind |-> "ok", val |-> source]
    IN  IF s.kind = "raised" THEN s
        ELSE IF src.kind = "raised" THEN src
        ELSE [kind |-> "ok", key |-> <<m, sec, s.val>>, val |-> src.val]

\* lines 250-262: an AttributeError is caught and logged as a warning, any
\* other exception leaves the call
add_data_source ==
    /\ ds_ncalls < MaxSrcCalls
    /\ \E f \in FChoices, sn \in SNameChoices, source \in SourceChoices,
          module \in ModuleChoices, section \in SectionChoices, py \in Interpreters :
         \E r \in { RecordSource(f, sn, source, module, section, py) } :
            /\ data_sources' = IF r.kind = "ok"
                               THEN SetItem(data_sources, r.key, r.val)
                               ELSE data_sources
            /\ ds_last' = [made |-> TRUE, f |-> f, s_name |-> sn, source |-> source,
                           module |-> module, section |-> section,
                           before |-> data_sources,
                           outcome |-> IF r.kind = "ok" THEN "stored"
                                       ELSE IF r.exc = "AttributeError" THEN "warned"
                                       ELSE "raised",
                           exc |-> IF r.kind = "ok" THEN "none" ELSE r.exc]
    /\ ds_ncalls' = ds_ncalls + 1
    /\ UNCHANGED <<cfgVars, nameVars, discVars, statVars, barVars, mplVars>>

NextSrc == add_data_source

SpecSrc == InitSrc /\ [][NextSrc]_vars

----------------------------------------------------------------------------
\* Claim about add_data_source

\* the call gave no sample name, no source path and no file to take them from
RequiredAbsent(call) ==
    /\ call.s_name = None
    /\ call.source = None
    /\ call.f.kind = "None"

\* C12: a call of add_data_source that gives no sample name, no source path
\* and no file does not raise: it logs the warning and leaves the data-source
\* mapping as it was.
C12_MissingFieldsWarned ==
    (ds_last.made /\ RequiredAbsent(ds_last)) =>
        /\ ds_last.outcome = "warned"
        /\ data_sources = ds_last.before

----------------------------------------------------------------------------
\* Static image: matplotlib_bargraph
\*
\* plotdata[0] is a list of series {'name': .., 'data': .., 'color': ..} and
\* plotsamples[0] the list of samples, as plot_bargraph builds them.  A
\* Python index idx is the position idx + 1 of a sequence.

MaxSeries == 11

\* lines 481-482
default_colors ==
    << "#7cb5ec", "#434348", "#90ed7d", "#f7a35c", "#8085e9",
       "#f15c80", "#e4d354", "#2b908f", "#f45b5b", "#91e8e1" >>

\* the numbers of samples the calls are made with
SampleCounts == { 2, matplotlib_switch + 1 }

\* random.sample(letters, 10)
RandomLetters == { <<"q", "r", "s", "t", "u", "v", "w", "x", "y", "z">> }

\* series number k of a call: a value for every sample, or for every sample
\* but the last when the first series is short of a sample (plot_bargraph
\* passes over the samples that lack the category)
SeriesOf(k, nsamp, coloured, short) ==
    ("name" :> k) @@
    ("data" :> [i \in 1..(IF short /\ k = 1 THEN nsamp - 1 ELSE nsamp) |-> k]) @@
    (IF coloured THEN ("color" :> "#000000") ELSE <<>>)

InitMpl ==
    /\ fn_clean_exts = <<>>
    /\ prepend_dirs = FALSE
    /\ NameIdle
    /\ DiscIdle
    /\ StatsIdle
    /\ SrcIdle
    /\ BarIdle
    /\ mpl_pc = "init"
    /\ \E n \in 1..MaxSeries, nsamp \in SampleCounts, coloured, short \in BOOLEAN :
          /\ mpl_plotdata = << [k \in 1..n |-> SeriesOf(k, nsamp, coloured, short)] >>
          /\ mpl_plotsamples = << [i \in 1..nsamp |-> i] >>
    /\ mpl_pconfig \in { <<>>, ("id" :> <<"p">>) }
    /\ mpl_result = NoResult

\* line 473: min(30, max(6, len(plotsamples[0]) / 2.3)), in 23rds of an inch
PltHeight23(n) ==
    LET atleast == IF 10 * n > 6 * 23 THEN 10 * n ELSE 6 * 23
    IN  IF atleast < 30 * 23 THEN atleast ELSE 30 * 23

\* lines 469-482: the id of the plot, the figure and the palette
MplSetup ==
    /\ mpl_pc = "init"
    /\ \E rnd \in RandomLetters :
         mpl_pconfig' =
            IF "id" \notin DOMAIN mpl_pconfig
            THEN ("id" :> <<"m","q","c","_","m","p","l","p","l","o","t","_">> \o rnd)
                 @@ mpl_pconfig
            ELSE mpl_pconfig
    /\ mpl_result' = [kind |-> "running",
                      plt_height |-> PltHeight23(Len(mpl_plotsamples[1])),
                      y_ind |-> [i \in 1..Len(mpl_plotsamples[1]) |-> i - 1],
                      idx |-> 0,
                      prevdata |-> <<>>,
                      cidx |-> <<>>,
                      dlabels |-> <<>>,
                      bars |-> <<>>]
    /\ mpl_pc' = "loop"
    /\ UNCHANGED <<cfgVars, nameVars, discVars, statVars, srcVars, barVars,
                   mpl_plotdata, mpl_plotsamples>>

\* lines 494-496: the default colour index of series index i
RECURSIVE ColourIndex(_)
ColourIndex(c) ==
    IF c > Len(default_colors) THEN ColourIndex(c - Len(default_colors)) ELSE c

\* Python: l[i] of a list, i >= 0
ListItem(l, i) ==
    IF i < Len(l) THEN [kind |-> "ok", val |-> l[i + 1]] ELSE Raised("IndexError")

\* lines 487-491: the offsets of the bars of series index i; the series
\* before it must have a value for every sample
Offsets(prevdata, i) ==
    IF i = 0 THEN [kind |-> "ok", val |-> [n \in 1..Len(mpl_plotsamples[1]) |-> 0]]
    ELSE LET before == mpl_plotdata[1][i]["data"] IN
         IF Len(before) < Len(prevdata) THEN Raised("IndexError")
         ELSE [kind |-> "ok", val |-> [n \in DOMAIN prevdata |-> prevdata[n] + before[n]]]

\* lines 485-503: one series of bars.  The default of d.get('color', ..) is
\* looked up in the palette whether or not the series has a colour.
MplBar ==
    /\ mpl_pc = "loop"
    /\ mpl_result.idx < Len(mpl_plotdata[1])
    /\ LET i == mpl_result.idx
           d == mpl_plotdata[1][i + 1]
       IN  \E prev \in { Offsets(mpl_result.prevdata, i) } :
           \E c \in { ColourIndex(i) } :
           \E dflt \in { ListItem(default_colors, c) } :
              IF prev.kind = "raised"
              THEN /\ mpl_result' = [mpl_result EXCEPT !.kind = "raised"] @@ [exc |-> prev.exc]
                   /\ mpl_pc' = "raised"
              ELSE IF dflt.kind = "raised"
              THEN /\ mpl_result' =
                        [mpl_result EXCEPT !.kind = "raised",
                                           !.prevdata = prev.val,
                                           !.cidx = Append(@, c),
                                           !.dlabels = Append(@, d["name"])]
                        @@ [exc |-> dflt.exc]
                   /\ mpl_pc' = "raised"
              ELSE /\ mpl_result' =
                        [mpl_result EXCEPT !.idx = i + 1,
                                           !.prevdata = prev.val,
                                           !.cidx = Append(@, c),
                                           !.dlabels = Append(@, d["name"]),
                                           !.bars = Append(@,
                                               [data |-> d["data"], left |-> prev.val,
                                                color |-> IF "color" \in DOMAIN d
                                                          THEN d["color"] ELSE dflt.val])]
                   /\ mpl_pc' = "loop"
    /\ UNCHANGED <<cfgVars, nameVars, discVars, statVars, srcVars, barVars,
                   mpl_plotdata, mpl_plotsamples, mpl_pconfig>>

\* lines 505-536: the axes, the legend and the image; the HTML is returned
MplReturn ==
    /\ mpl_pc = "loop"
    /\ mpl_result.idx = Len(mpl_plotdata[1])
    /\ mpl_result' = [mpl_result EXCEPT !.kind = "html"]
    /\ mpl_pc' = "done"
    /\ UNCHANGED <<cfgVars, nameVars, discVars, statVars, srcVars, barVars,
                   mpl_plotdata, mpl_plotsamples, mpl_pconfig>>

NextMpl ==
    \/ MplSetup
    \/ MplBar
    \/ MplReturn

SpecMpl == InitMpl /\ [][NextMpl]_vars

----------------------------------------------------------------------------
\* Claim about matplotlib_bargraph

\* C13: every default colour index that matplotlib_bargraph computes for a
\* series of the first dataset is a position of the palette of 10 colours,
\* 0 <= cidx <= 9, and no lookup in the palette is out of range.
C13_ColourIndexInPalette ==
    mpl_pc # "init" =>
        /\ \A n \in DOMAIN mpl_result.cidx :
              mpl_result.cidx[n] >= 0 /\ mpl_result.cidx[n] <= 9
        /\ \A n \in DOMAIN mpl_result.cidx :
              ListItem(default_colors, mpl_result.cidx[n]).kind = "ok"

====
